---- MODULE Spec2Model ----
(***************************************************************************)
(* AI Recipe Generator: the Streamlit presentation loop (app.py, main) and *)
(* the generation client with its retry loop (services/llm_service.py,     *)
(* generate_recipe_with_llm).                                              *)
(*                                                                         *)
(* Time is counted in ticks of half a second, so that the 1.5-second       *)
(* cooldown of check_rate_limit is the integer 3; Secs(s) converts the     *)
(* whole-second sleeps of the client.  A string built by an f-string is a  *)
(* sequence of tokens, a provider message is a sequence of words.          *)
(***************************************************************************)
EXTENDS Integers, Sequences, FiniteSets, TLC

VARIABLES
  openai_key,          \* app.py 167: the OpenAI secret is set (fixed per process)
  gemini_key,          \* app.py 168: the Gemini secret is set
  openai_client,       \* llm_service._openai_client is not None
  gemini_api_key,      \* llm_service._gemini_api_key is not None
  generating_recipe,   \* st.session_state.generating_recipe
  last_request_time,   \* st.session_state.last_request_time
  error_message,       \* st.session_state.error_message (None is the empty sequence)
  now,                 \* time.time()
  pc,                  \* position of the script run: idle, call, attempt, ret, raised
  request,             \* arguments of the running generate_recipe_with_llm call
  attempt,             \* loop variable of the retry loop
  trace,               \* sleeps and provider calls made by the running call, in order
  result,              \* value returned by the call (recipe_output)
  displayed,           \* messages shown so far by st.error at app.py 267
  reported,            \* error message the last finished generation assigned
  prev_request_time    \* last_request_time before the latest check_rate_limit

vars == <<openai_key, gemini_key, openai_client, gemini_api_key, generating_recipe,
          last_request_time, error_message, now, pc, request, attempt, trace,
          result, displayed, reported, prev_request_time>>

----------------------------------------------------------------------------
\* Bounds of the model.
StartTime == 4       \* clock value when the session starts
MaxTime == 8         \* no new script run starts after this clock value
MaxThink == 2        \* longest pause of the user between two script runs
MaxOversleep == 1    \* how much longer than asked time.sleep may take

\* Program constants.
max_retries == 3
Cooldown == 3        \* 1.5 seconds, in half-second ticks

Secs(s) == 2 * s
Min(a, b) == IF a < b THEN a ELSE b
None == << >>
NoRequest == [provider |-> "-", model |-> "-"]

----------------------------------------------------------------------------
\* llm_service.py: model lists.
openai_models == <<"gpt-3.5-turbo", "gpt-4", "gpt-4o">>
gemini_models == <<"gemini-1.5-pro", "gemini-1.5-flash", "gemini-2.0-pro",
                   "gemini-2.0-flash", "gemini-2.5-flash">>

get_available_models(api_provider) ==
  IF api_provider = "OpenAI" THEN openai_models
  ELSE IF api_provider = "Gemini" THEN gemini_models
  ELSE << >>

Range(s) == {s[i] : i \in DOMAIN s}

----------------------------------------------------------------------------
Init ==
  /\ openai_key \in BOOLEAN
  /\ gemini_key \in BOOLEAN
  /\ openai_client = FALSE
  /\ gemini_api_key = FALSE
  /\ generating_recipe = FALSE
  /\ last_request_time = 0
  /\ error_message = None
  /\ now = StartTime
  /\ pc = "idle"
  /\ request = NoRequest
  /\ attempt = 0
  /\ trace = << >>
  /\ result = None
  /\ displayed = {}
  /\ reported = None
  /\ prev_request_time = 0

----------------------------------------------------------------------------
\* Strings: text typed into the form is a sequence of characters.
RECURSIVE lstrip(_)
lstrip(s) == IF s # << >> /\ Head(s) = " " THEN lstrip(Tail(s)) ELSE s

RECURSIVE rstrip(_)
rstrip(s) ==
  IF s # << >> /\ s[Len(s)] = " " THEN rstrip(SubSeq(s, 1, Len(s) - 1)) ELSE s

strip(s) == rstrip(lstrip(s))

IngredientInputs == { << >>, <<" ">>, <<"c">>, <<" ", "c", " ">> }

\* str.startswith("Error:") on a token sequence.
StartsWithError(s) == s # << >> /\ s[1] = "Error:"

\* str.lower() on a message, word by word.
LowerWord(w) ==
  CASE w = "Invalid" -> "invalid"
    [] w = "Model" -> "model"
    [] w = "Not" -> "not"
    [] w = "Found" -> "found"
    [] w = "Internal" -> "internal"
    [] w = "API" -> "api"
    [] OTHER -> w

lower(msg) == [i \in DOMAIN msg |-> LowerWord(msg[i])]

\* "invalid" in error_msg or "not found" in error_msg
NamesInvalidModel(msg) ==
  LET error_msg == lower(msg) IN
    \/ \E i \in DOMAIN error_msg : error_msg[i] = "invalid"
    \/ \E i \in DOMAIN error_msg :
         i + 1 \in DOMAIN error_msg /\ error_msg[i] = "not" /\ error_msg[i + 1] = "found"

----------------------------------------------------------------------------
\* What a provider call can do: return a text, or fail for one of four causes
\* with a message.
Providers == {"OpenAI", "Gemini"}
Texts == { <<"Recipe", "steps">>, << >> }

Outcomes ==
  {[cause |-> "ok", msg |-> << >>, text |-> t] : t \in Texts}
  \cup
  {[cause |-> c, msg |-> m, text |-> << >>] :
     <<c, m>> \in { <<"rate_limit", <<"quota", "exceeded">>>>,
                    <<"auth", <<"API", "key", "rejected">>>>,
                    <<"auth", <<"Invalid", "API", "key">>>>,
                    <<"connect", <<"connection", "refused">>>>,
                    <<"other", <<"Model", "Not", "Found">>>>,
                    <<"other", <<"Invalid", "argument">>>>,
                    <<"other", <<"Internal", "error">>>> }}

\* The exception class that reaches the except clauses.  RateLimitError,
\* AuthenticationError and APIConnectionError are the classes of the openai
\* package (llm_service.py 2); only the OpenAI call raises them.  The failures of
\* the Gemini call arrive as exceptions of other classes.
Raised(api_provider, cause) ==
  IF cause = "ok" THEN "none"
  ELSE IF api_provider = "OpenAI" THEN
    CASE cause = "rate_limit" -> "RateLimitError"
      [] cause = "auth" -> "AuthenticationError"
      [] cause = "connect" -> "APIConnectionError"
      [] OTHER -> "Exception"
  ELSE "Exception"

\* Events of the trace.
SleepEv(d) ==
  [ev |-> "sleep", d |-> d, cause |-> "-", exc |-> "-", msg |-> << >>, text |-> << >>]
CallEv(api_provider, o) ==
  [ev |-> "call", d |-> 0, cause |-> o.cause, exc |-> Raised(api_provider, o.cause),
   msg |-> o.msg, text |-> o.text]

\* The results the client builds.
NotConfigured(api_provider) == <<"Error:", api_provider, "API key not configured">>
InvalidKey(api_provider) == <<"Error:", "Invalid API key for", api_provider>>
CouldNotConnect(api_provider) == <<"Error:", "Could not connect to", api_provider, "API">>
InvalidModel(model_name, api_provider) ==
  <<"Error:", "Invalid model", model_name, "for", api_provider>>
FailedAfter(msg) == <<"Error:", "Failed after", ToString(max_retries), "attempts:">> \o msg
FailedToGenerate ==
  <<"Error:", "Failed to generate recipe after", ToString(max_retries), "attempts">>

\* Faulty variant: the backoff grows by one second per attempt.
Backoff_Linear(n) == Secs(Min(n + 1, 10))

\* Rate-limit backoff: min(2 ** attempt, 10) seconds.
Backoff(n) == Secs(Min(2 ^ n, 10))

\* What one iteration of the loop does after the provider call:
\*   Return(v): the function returns v;  Retry(w): it sleeps w and continues;
\*   Propagate: no except clause matches and the exception leaves the function.
Return(v) == [do |-> "return", value |-> v, wait |-> 0]
Retry(w) == [do |-> "continue", value |-> None, wait |-> w]
Propagate == [do |-> "raise", value |-> None, wait |-> 0]

\* Faulty variant: the last rate-limited attempt gives up without sleeping.
OnRateLimit_NoLastWait(n) == IF n = max_retries - 1 THEN Retry(0) ELSE Retry(Backoff(n))

\* except RateLimitError
OnRateLimit(n) == Retry(Backoff(n))

\* except AuthenticationError
OnAuthentication(api_provider) == Return(InvalidKey(api_provider))

\* Faulty variant: the last-attempt test is off by one.
OnConnection_OffByOne(api_provider, n) ==
  IF n = max_retries THEN Return(CouldNotConnect(api_provider)) ELSE Retry(Secs(2))

\* except APIConnectionError
OnConnection(api_provider, n) ==
  IF n = max_retries - 1 THEN Return(CouldNotConnect(api_provider)) ELSE Retry(Secs(2))

\* Faulty variant: the message is matched without lowering it.
OnException_CaseSensitive(api_provider, model_name, n, msg) ==
  IF (\E i \in DOMAIN msg : msg[i] = "invalid")
     \/ (\E i \in DOMAIN msg : i + 1 \in DOMAIN msg /\ msg[i] = "not" /\ msg[i + 1] = "found")
  THEN Return(InvalidModel(model_name, api_provider))
  ELSE IF n = max_retries - 1 THEN Return(FailedAfter(msg))
  ELSE Retry(Secs(1))

\* except Exception
OnException(api_provider, model_name, n, msg) ==
  IF NamesInvalidModel(msg) THEN Return(InvalidModel(model_name, api_provider))
  ELSE IF n = max_retries - 1 THEN Return(FailedAfter(msg))
  ELSE Retry(Secs(1))

\* Faulty variant: the catch-all except clause is missing.
ExceptClause_NoCatchAll(api_provider, model_name, n, o) ==
  LET exc == Raised(api_provider, o.cause) IN
    CASE exc = "none" -> Return(o.text)
      [] exc = "RateLimitError" -> OnRateLimit(n)
      [] exc = "AuthenticationError" -> OnAuthentication(api_provider)
      [] exc = "APIConnectionError" -> OnConnection(api_provider, n)
      [] OTHER -> Propagate

\* The try statement of the loop body, for the outcome o of the provider call.
ExceptClause(api_provider, model_name, n, o) ==
  LET exc == Raised(api_provider, o.cause) IN
    CASE exc = "none" -> Return(o.text)
      [] exc = "RateLimitError" -> OnRateLimit(n)
      [] exc = "AuthenticationError" -> OnAuthentication(api_provider)
      [] exc = "APIConnectionError" -> OnConnection(api_provider, n)
      [] exc = "Exception" -> OnException(api_provider, model_name, n, o.msg)
      [] OTHER -> Propagate

\* Faulty variant: only the OpenAI credential is checked.
Configured_OpenAIOnly(api_provider) == api_provider = "OpenAI" => openai_client

\* Credential check at the head of generate_recipe_with_llm.
Configured(api_provider) ==
  /\ api_provider = "OpenAI" => openai_client
  /\ api_provider = "Gemini" => gemini_api_key

\* generate_recipe_with_llm is entered: the credential check.
CallGenerate ==
  /\ pc = "call"
  /\ attempt' = 0
  /\ trace' = << >>
  /\ IF Configured(request.provider)
     THEN /\ pc' = "attempt"
          /\ result' = None
     ELSE /\ pc' = "ret"
          /\ result' = NotConfigured(request.provider)
  /\ UNCHANGED <<openai_key, gemini_key, openai_client, gemini_api_key,
                 generating_recipe, last_request_time, error_message, now,
                 request, displayed, reported, prev_request_time>>

\* One iteration of the retry loop: the pacing sleep, the provider call, the
\* except clause, and the return after the loop when this was the last one.
\* The sleeps of the loop take exactly the time asked for.
Attempt(o) ==
  /\ pc = "attempt"
  /\ LET h == ExceptClause(request.provider, request.model, attempt, o)
         called == trace \o <<SleepEv(Secs(1)), CallEv(request.provider, o)>>
     IN CASE h.do = "return" ->
               /\ trace' = called
               /\ now' = now + Secs(1)
               /\ result' = h.value
               /\ pc' = "ret"
               /\ attempt' = attempt
          [] h.do = "raise" ->
               /\ trace' = called
               /\ now' = now + Secs(1)
               /\ result' = None
               /\ pc' = "raised"
               /\ attempt' = attempt
          [] OTHER ->
               /\ trace' = called \o <<SleepEv(h.wait)>>
               /\ now' = now + Secs(1) + h.wait
               /\ attempt' = attempt + 1
               /\ IF attempt + 1 < max_retries
                  THEN /\ pc' = "attempt"
                       /\ result' = None
                  ELSE /\ pc' = "ret"
                       /\ result' = FailedToGenerate
  /\ UNCHANGED <<openai_key, gemini_key, openai_client, gemini_api_key,
                 generating_recipe, last_request_time, error_message,
                 request, displayed, reported, prev_request_time>>

----------------------------------------------------------------------------
\* app.py: the presentation loop.

\* Faulty variant: the request time is the one read before the sleep.
check_rate_limit_Stale(current_time, over) ==
  LET elapsed == current_time - last_request_time
      woke == IF elapsed < Cooldown
              THEN current_time + (Cooldown - elapsed) + over
              ELSE current_time
  IN [now |-> woke, last_request_time |-> current_time]

\* check_rate_limit, called at clock value current_time; over is the time by
\* which time.sleep overshoots.  Yields the clock value at return and the
\* recorded last_request_time.
check_rate_limit(current_time, over) ==
  LET elapsed == current_time - last_request_time
      woke == IF elapsed < Cooldown
              THEN current_time + (Cooldown - elapsed) + over
              ELSE current_time
  IN [now |-> woke, last_request_time |-> woke]

\* Faulty variant: only the error is cleared.
reset_state_KeepsFlag == [generating_recipe |-> generating_recipe, error_message |-> None]

\* reset_state: the session fields it assigns.
reset_state == [generating_recipe |-> FALSE, error_message |-> None]

\* display_recipe: the value it leaves in st.session_state.error_message.
display_recipe(recipe_output) ==
  IF recipe_output = << >> \/ StartsWithError(recipe_output)
  THEN (IF recipe_output # << >> THEN recipe_output ELSE <<"Failed to generate recipe">>)
  ELSE None

GenerationFailed == <<"Recipe generation failed:", "exception">>

\* configure_api_key: a client is (re)built when its key is set; building it may fail.
configure_api_key(key, old, builds) == IF key THEN builds ELSE old

available_providers ==
  (IF openai_key THEN <<"OpenAI">> ELSE << >>) \o (IF gemini_key THEN <<"Gemini">> ELSE << >>)

\* One script run of main up to the generation call: init_session, the keys,
\* the widgets, the submit handling with check_rate_limit, the error display.
MainPass(submitted, ingredients, provider, model, oBuilds, gBuilds, think, over) ==
  /\ pc = "idle"
  /\ now + think <= MaxTime
  /\ openai_client' = configure_api_key(openai_key, openai_client, oBuilds)
  /\ gemini_api_key' = configure_api_key(gemini_key, gemini_api_key, gBuilds)
  /\ IF ~openai_key /\ ~gemini_key
     THEN /\ now' = now + think
          /\ UNCHANGED <<generating_recipe, last_request_time, error_message, pc,
                         request, displayed, reported, prev_request_time>>
     ELSE /\ provider \in Range(available_providers)
          /\ model \in Range(get_available_models(provider))
          /\ submitted => ~generating_recipe
          /\ LET accepted == submitted /\ strip(ingredients) # << >>
                 cleared == IF generating_recipe THEN None ELSE error_message
                 rl == check_rate_limit(now + think, over)
                 generating == IF accepted THEN TRUE ELSE generating_recipe
                 message == IF accepted THEN None ELSE cleared
             IN /\ generating_recipe' = generating
                /\ error_message' = message
                /\ now' = IF accepted THEN rl.now ELSE now + think
                /\ last_request_time' =
                     IF accepted THEN rl.last_request_time ELSE last_request_time
                /\ prev_request_time' =
                     IF accepted THEN last_request_time ELSE prev_request_time
                /\ reported' = IF accepted THEN None ELSE reported
                /\ displayed' = IF message # None THEN displayed \cup {message} ELSE displayed
                /\ IF generating /\ strip(ingredients) # << >>
                   THEN /\ pc' = "call"
                        /\ request' = [provider |-> provider, model |-> model]
                   ELSE /\ pc' = "idle"
                        /\ request' = NoRequest
  /\ UNCHANGED <<openai_key, gemini_key, attempt, trace, result>>

\* The rest of the script run after generate_recipe_with_llm returned:
\* display_recipe (rendering may raise), the except clause, finally reset_state.
MainFinish(raises) ==
  /\ pc \in {"ret", "raised"}
  /\ raises => pc = "ret" /\ display_recipe(result) = None
  /\ reported' = IF raises \/ pc = "raised" THEN GenerationFailed
                 ELSE display_recipe(result)
  /\ generating_recipe' = reset_state.generating_recipe
  /\ error_message' = reset_state.error_message
  /\ pc' = "idle"
  /\ request' = NoRequest
  /\ attempt' = 0
  /\ trace' = << >>
  /\ result' = None
  /\ UNCHANGED <<openai_key, gemini_key, openai_client, gemini_api_key,
                 last_request_time, now, displayed, prev_request_time>>

\* A script run starts: the user's inputs and the environment of this run.
main ==
  /\ pc = "idle"
  /\ \E provider \in Providers, think \in 0..MaxThink :
       \E submitted \in BOOLEAN, ingredients \in IngredientInputs,
          model \in Range(get_available_models(provider)),
          oBuilds \in BOOLEAN, gBuilds \in BOOLEAN, over \in 0..MaxOversleep :
         MainPass(submitted, ingredients, provider, model, oBuilds, gBuilds, think, over)

Next ==
  \/ main
  \/ CallGenerate
  \/ \E o \in Outcomes : Attempt(o)
  \/ \E raises \in BOOLEAN : MainFinish(raises)

Spec == Init /\ [][Next]_vars

----------------------------------------------------------------------------
\* Reading the trace of the running call.
IsCall(e) == e.ev = "call"
Calls == SelectSeq(trace, IsCall)
InCall == pc \in {"attempt", "ret", "raised"}
\* The n-th attempt (from 0) puts its provider call and the wait after it
\* at these places of the trace, behind its pacing sleep.
CallAt(n) == 3 * n + 2
WaitAt(n) == 3 * n + 3
Attempts == 0..(max_retries - 1)

\* C1: generate_recipe_with_llm makes at most 3 attempts, each one either
\* returns or moves on to the next, it never raises to its caller, and the one
\* value it returns is the text the provider generated in the last call or a
\* string that starts with "Error:".
C1_AlwaysAValue ==
  /\ pc # "raised"
  /\ InCall => /\ Len(Calls) <= max_retries
               /\ attempt <= max_retries
               /\ Len(trace) <= 3 * max_retries
  /\ pc = "attempt" => attempt < max_retries /\ Len(Calls) = attempt /\ result = None
  /\ pc = "ret" =>
       \/ StartsWithError(result)
       \/ /\ trace # << >>
          /\ trace[Len(trace)].ev = "call"
          /\ trace[Len(trace)].cause = "ok"
          /\ result = trace[Len(trace)].text

C1_Witness ==
  /\ pc = "ret"
  /\ Len(Calls) = max_retries
  /\ request.provider = "Gemini"
  /\ Calls[1].cause = "rate_limit" /\ Calls[2].cause = "connect" /\ Calls[3].cause = "auth"
  /\ StartsWithError(result)

\* C2: a request to a provider whose credential is not configured returns
\* "Error: <Provider> API key not configured" with no attempt, no sleep and no
\* provider call, whichever model is requested.
C2_MissingCredential ==
  LET missing == \/ request.provider = "OpenAI" /\ ~openai_client
                 \/ request.provider = "Gemini" /\ ~gemini_api_key
  IN InCall /\ missing =>
       /\ pc = "ret"
       /\ result = <<"Error:", request.provider, "API key not configured">>
       /\ trace = << >>
       /\ attempt = 0

C2_Witness ==
  /\ pc = "ret"
  /\ request = [provider |-> "Gemini", model |-> "gemini-2.0-flash"]
  /\ ~gemini_api_key
  /\ openai_client
  /\ trace = << >>

\* The exception classes of the calls made so far, in order.
Excs == [i \in DOMAIN Calls |-> Calls[i].exc]
\* The sleeps of the trace, -1 standing for a provider call.
Shape == [i \in DOMAIN trace |-> IF trace[i].ev = "sleep" THEN trace[i].d ELSE -1]
Last == trace[Len(trace)]

C5_AuthFailsAtOnce ==
  InCall =>
    \A i \in DOMAIN trace :
      (trace[i].ev = "call" /\ trace[i].cause = "auth") =>
        /\ i = Len(trace)
        /\ pc = "ret"
        /\ result = <<"Error:", "Invalid API key for", request.provider>>

\* The messages of the model that contain "invalid" or "not found" once lowered.
IndicatesModel(msg) ==
  msg \in { <<"Model", "Not", "Found">>, <<"Invalid", "argument">>, <<"Invalid", "API", "key">> }

\* C6: a failure caught by the catch-all clause (none of RateLimitError,
\* AuthenticationError, APIConnectionError) whose message indicates an invalid
\* or unknown model ends the call at once with
\* "Error: Invalid model '<model>' for <Provider>"; any other such failure is
\* followed by a 1-second sleep and the next attempt, and on the third attempt
\* by the result "Error: Failed after 3 attempts: <message>".
C6_OtherFailures ==
  InCall =>
    \A n \in Attempts :
      (CallAt(n) \in DOMAIN trace /\ trace[CallAt(n)].exc = "Exception") =>
        LET e == trace[CallAt(n)] IN
          IF IndicatesModel(e.msg)
          THEN /\ Len(trace) = CallAt(n)
               /\ pc = "ret"
               /\ result = <<"Error:", "Invalid model", request.model, "for",
                             request.provider>>
          ELSE IF n = 2
          THEN /\ Len(trace) = CallAt(n)
               /\ pc = "ret"
               /\ result = <<"Error:", "Failed after", "3", "attempts:">> \o e.msg
          ELSE /\ WaitAt(n) \in DOMAIN trace
               /\ trace[WaitAt(n)] = SleepEv(2)
               /\ attempt > n
               /\ (pc = "attempt" /\ attempt = n + 1) \/ CallAt(n + 1) \in DOMAIN trace

C6_Witness ==
  /\ pc = "ret"
  /\ request.provider = "OpenAI"
  /\ Len(Calls) = 3
  /\ \A i \in 1..3 : Calls[i].cause = "other" /\ Calls[i].msg = <<"Internal", "error">>
  /\ result = <<"Error:", "Failed after", "3", "attempts:", "Internal", "error">>

\* The message returned after the loop, and the failures the loop retries.
Generic == <<"Error:", "Failed to generate recipe after", "3", "attempts">>

Retryable(e) ==
  \/ e.exc \in {"RateLimitError", "APIConnectionError"}
  \/ e.exc = "Exception" /\ ~IndicatesModel(e.msg)

C7_ErrorIsShown ==
  (pc = "idle" /\ reported # None) =>
     reported \in displayed \/ error_message = reported

\* C8: two consecutive recorded request times are at least 1.5 seconds
\* (3 ticks) apart, and the generation call runs only after the cooldown since
\* the previous request is over and the new request time is recorded.
C8_Cooldown ==
  /\ last_request_time # 0 => last_request_time - prev_request_time >= 3
  /\ pc \in {"call", "attempt", "ret", "raised"} =>
       /\ now >= prev_request_time + 3
       /\ now >= last_request_time
       /\ last_request_time # 0

C8_Witness ==
  /\ pc = "attempt"
  /\ trace # << >>
  /\ prev_request_time > 0
  /\ last_request_time = prev_request_time + 3

\* C10: generating_recipe is False whenever no script run is in progress, that
\* is at the end of every run of main, whatever the run did.
C10_FlagClearedAtEndOfRun ==
  pc = "idle" => generating_recipe = FALSE

C10_Witness ==
  /\ pc = "idle"
  /\ ~generating_recipe
  /\ reported = GenerationFailed
  /\ prev_request_time > 0

====
